---------------------------- MODULE Spec2Model ----------------------------
(***************************************************************************)
(* Model of davtelepot/bot.py: the TelegramBot session pool and            *)
(* api_request, and the Bot transports (long polling with its offset,      *)
(* webhook), identity check, dispatch tasks and process stop.              *)
(*                                                                         *)
(* One step of the model is one uninterrupted run of a coroutine between   *)
(* two suspension points of the asyncio event loop: the `await` of a       *)
(* posted request or of a sleep.  The close of a session that api_request  *)
(* used once belongs to the step that receives the answer.  The remote     *)
(* platform is the environment: every posted request can end in each of    *)
(* the ways api_request distinguishes.                                     *)
(***************************************************************************)
EXTENDS Integers, Sequences, FiniteSets, TLC

\* ------------------------------------------------------------------ bounds
\* The bot instances of the process (Bot.bots after construction).
BotList == << "b1", "b2" >>
Bots == {BotList[k] : k \in DOMAIN BotList}
\* First update_id the remote platform assigns, and how many it assigns.
FirstUpdateId == 10
MaxUpdates == 2
\* Number of direct get_session calls in SpecSession.
MaxAcquire == 4
\* Number of direct route_update calls in SpecRoute.
MaxDispatch == 2

\* ------------------------------------------------------- program constants
\* get_updates(timeout=30, limit=100, ...)
limit == 100
\* Bot.final_state = 0
initial_final_state == 0
\* first positional argument of the stop call in get_me
restart_code == 65

\* Python's None and a present value.
None == << >>
Some(x) == << x >>

\* A Python value that is an int, or a str (the parts of the string).
PyInt(i) == [type |-> "int", int |-> i, str |-> << >>]
PyStr(s) == [type |-> "str", int |-> 0, str |-> s]

Hostnames == {"", "example.com"}
LastUpdateId == FirstUpdateId + MaxUpdates - 1
UpdateIds == FirstUpdateId .. LastUpdateId

\* How a session.post inside api_request can end:
\*   result         json with ok = true
\*   TelegramError  json with ok = false
\*   Exception      body not json, or json without the `ok` field
\*   timeout        asyncio.TimeoutError
\*   raise          any other exception of session.post (aiohttp.ClientError,
\*                  RuntimeError of a closed session)
Outcomes == {"result", "TelegramError", "Exception", "timeout", "raise"}

VARIABLES
    hostname,       \* Bot._hostname
    offset,         \* Bot._offset
    name,           \* Bot._name
    telegram_id,    \* Bot._telegram_id
    sessions,       \* TelegramBot.sessions: api_method -> session
    created,        \* number of ClientSession objects each instance built
    open,           \* the ClientSession objects that are not closed
    coro,           \* coroutine setup scheduled: get_updates or set_webhook
    pc,             \* where that coroutine is suspended
    update,         \* local variable `update` of get_updates
    req,            \* the request that coroutine has posted and awaits
    routes,         \* instances with a POST route in app.router
    server,         \* start_app has run
    tasks,          \* route_update tasks launched with ensure_future
    routed,         \* number of route_update tasks launched per update_id
    launched,       \* update_ids in the order their tasks were launched
    delivered,      \* remote: webhook calls made per instance
    remote_webhook, \* remote: a webhook is registered for the instance
    acks,           \* number of `OK` responses webhook_feeder returned
    final_state,    \* Bot.final_state
    phase,          \* run: constructed, running (run_forever), stopping
                    \* (stop_app), exited (run returned), raised (run raised)
    closing,        \* stop_app: instances whose close_sessions is still due
    last_result,    \* what the last getUpdates call returned to get_updates
    cooled,         \* a cooldown sleep ended since the last getUpdates result
    acquired,       \* log of direct get_session calls (SpecSession)
    maintenance,    \* maintenance flag of each instance (spec 4.3)
    overrides,      \* override registry of each instance (spec 4.4)
    dispatches,     \* number of direct route_update calls (SpecRoute)
    last_dispatch   \* the last of them: instance, envelope, what it did

vars == << hostname, offset, name, telegram_id, sessions, created, open,
           coro, pc, update, req, routes, server, tasks, routed, launched,
           delivered, remote_webhook, acks, final_state, phase, closing,
           last_result, cooled, acquired, maintenance, overrides,
           dispatches, last_dispatch >>

config_vars == << hostname >>
identity_vars == << name, telegram_id >>
session_vars == << sessions, created, open >>
main_vars == << coro, pc, update, req, last_result, cooled >>
dispatch_vars == << tasks, routed, launched >>
remote_vars == << delivered, remote_webhook >>
web_vars == << routes, server, acks >>
stop_vars == << final_state, phase, closing >>
gate_vars == << maintenance, overrides >>
route_vars == << dispatches, last_dispatch >>

\* ------------------------------------------------------------ session pool
sessions_timeouts ==
    [getUpdates |-> [timeout |-> 35, close |-> FALSE],
     sendMessage |-> [timeout |-> 20, close |-> FALSE]]

\* aiohttp.ClientSession(...): a new object, named by the instance whose
\* call built it and a serial number.
ClientSession(b) == << b, created[b] + 1 >>

\* get_session storing the session of an unlisted operation as well.
get_session_stores_unlisted(b, api_method) ==
    IF api_method \in DOMAIN sessions_timeouts
    THEN IF api_method \notin DOMAIN sessions[b]
         THEN [session |-> ClientSession(b),
               session_must_be_closed |-> sessions_timeouts[api_method].close,
               built |-> TRUE, store |-> TRUE]
         ELSE [session |-> sessions[b][api_method],
               session_must_be_closed |-> sessions_timeouts[api_method].close,
               built |-> FALSE, store |-> FALSE]
    ELSE [session |-> ClientSession(b), session_must_be_closed |-> TRUE,
          built |-> TRUE, store |-> TRUE]

\* get_session without the reuse test: every call builds a session.
get_session_always_new(b, api_method) ==
    IF api_method \in DOMAIN sessions_timeouts
    THEN [session |-> ClientSession(b),
          session_must_be_closed |-> sessions_timeouts[api_method].close,
          built |-> TRUE, store |-> TRUE]
    ELSE [session |-> ClientSession(b), session_must_be_closed |-> TRUE,
          built |-> TRUE, store |-> FALSE]

\* get_session(api_method): the tuple (session, session_must_be_closed);
\* `built` tells that a ClientSession was constructed, `store` that it was
\* put into self.sessions.
get_session(b, api_method) ==
    IF api_method \in DOMAIN sessions_timeouts
    THEN IF api_method \notin DOMAIN sessions[b]
         THEN [session |-> ClientSession(b),
               session_must_be_closed |-> sessions_timeouts[api_method].close,
               built |-> TRUE, store |-> TRUE]
         ELSE [session |-> sessions[b][api_method],
               session_must_be_closed |-> sessions_timeouts[api_method].close,
               built |-> FALSE, store |-> FALSE]
    ELSE [session |-> ClientSession(b), session_must_be_closed |-> TRUE,
          built |-> TRUE, store |-> FALSE]

\* The effect of one get_session call on self.sessions and on the sessions
\* that exist; `base` is the set of open sessions the call starts from.
Acquire(b, api_method, base) ==
    LET g == get_session(b, api_method)
    IN  /\ sessions' = IF g.store
                       THEN [sessions EXCEPT ![b] = (api_method :> g.session) @@ @]
                       ELSE sessions
        /\ created' = IF g.built THEN [created EXCEPT ![b] = @ + 1] ELSE created
        /\ open' = IF g.built THEN base \cup {g.session} ELSE base

\* ------------------------------------------------------------- api_request
\* The request api_request posts: session.post runs up to its first
\* suspension after get_session and adapt_parameters.  `offset` is the
\* offset parameter of a getUpdates request (0 for the other methods).
Request(b, api_method, offset_parameter) ==
    LET g == get_session(b, api_method)
    IN  [method |-> api_method, session |-> g.session,
         close |-> g.session_must_be_closed, offset |-> offset_parameter]

NoRequest == [method |-> "", session |-> << >>, close |-> FALSE, offset |-> 0]

\* check_telegram_api_json and the handlers of api_request: what api_request
\* hands to its caller for an outcome of session.post.
\*   "value"          response['result'] is returned
\*   "TelegramError"  the TelegramError instance is returned
\*   "Exception"      the AssertionError / decoding error is returned
\*   "None"           response_object is still None after a timeout
\*   "raise"          the exception propagates to the caller
api_request_returns(outcome) ==
    CASE outcome = "result" -> "value"
      [] outcome = "TelegramError" -> "TelegramError"
      [] outcome = "Exception" -> "Exception"
      [] outcome = "timeout" -> "None"
      [] outcome = "raise" -> "raise"

\* A post on a closed session cannot be answered: it raises.
PossibleOutcomes(r) ==
    IF r.session \in open THEN Outcomes ELSE {"raise"}

\* api_request without its `finally`: no session is closed after use.
CloseAfterUse_never(r) == open

\* The `finally` closing the session without the test of the flag.
CloseAfterUse_always(r) == open \ {r.session}

\* `finally: if session_must_be_closed: await session.close()`
CloseAfterUse(r) ==
    IF r.close THEN open \ {r.session} ELSE open

\* -------------------------------------------------------- update envelopes
\* The keys of an update that route_update can meet: a category key is
\* populated or not; a message has a chat (private or group), a sender and
\* may have a text.
Categories == {"message", "callback_query"}
ChatTypes == {"private", "group"}
Users == {"u1"}
Texts == {"hello", "ciao"}

NoMessage == [chat |-> "", sender |-> "", has_text |-> FALSE, text |-> ""]

Messages ==
    {[chat |-> c, sender |-> u, has_text |-> TRUE, text |-> x] :
        c \in ChatTypes, u \in Users, x \in Texts}
    \cup {[chat |-> c, sender |-> u, has_text |-> FALSE, text |-> ""] :
        c \in ChatTypes, u \in Users}

Envelopes ==
    {[categories |-> k, message |-> NoMessage] :
        k \in {x \in SUBSET Categories : "message" \notin x}}
    \cup {[categories |-> k, message |-> m] :
        k \in {x \in SUBSET Categories : "message" \in x}, m \in Messages}

\* Bot.route_update(update), up to the await of sendMessage: print(update),
\* then update['message']['chat']['id'] and update['message']['text'] are
\* read, which raises KeyError when a key is missing, then sendMessage is
\* posted with that text.  No other method is called and nothing is logged.
\*   raises    a KeyError leaves route_update
\*   handlers  the category handlers it invokes
\*   logged    it logs an error
\*   replies   the texts it sends to the chat
route_update(envelope) ==
    IF "message" \in envelope.categories /\ envelope.message.has_text
    THEN [raises |-> FALSE, handlers |-> {}, logged |-> FALSE,
          replies |-> << envelope.message.text >>]
    ELSE [raises |-> TRUE, handlers |-> {}, logged |-> FALSE,
          replies |-> << >>]

NoDispatch ==
    [bot |-> "", envelope |-> [categories |-> {}, message |-> NoMessage],
     result |-> [raises |-> FALSE, handlers |-> {}, logged |-> FALSE,
                 replies |-> << >>]]

\* ----------------------------------------------------------- configuration
token(b) == b
session_token(b) == "get_secure_key"

\* Bot.webhook_url, as the parts of the formatted string ('' is << >>).
webhook_url(b) ==
    IF hostname[b] = ""
    THEN << >>
    ELSE << hostname[b], "/webhook/", token(b), "_", session_token(b), "/" >>

\* The path without the token: the same for every instance.
webhook_local_address_no_token(b) ==
    << "/webhook/", session_token(b), "/" >>

\* Bot.webhook_local_address
webhook_local_address(b) ==
    << "/webhook/", token(b), "_", session_token(b), "/" >>

\* setup scheduling get_updates whatever the webhook url.
setup_polls_always(b) ==
    [task |-> "get_updates", route |-> webhook_url(b) # << >>]

\* setup adding the POST route whatever the transport.
setup_route_always(b) ==
    IF webhook_url(b) = << >>
    THEN [task |-> "get_updates", route |-> TRUE]
    ELSE [task |-> "set_webhook", route |-> TRUE]

\* Bot.setup: the coroutine it schedules and whether it adds the route.
setup(b) ==
    IF webhook_url(b) = << >>
    THEN [task |-> "get_updates", route |-> FALSE]
    ELSE [task |-> "set_webhook", route |-> TRUE]

\* Bot.stop(message, final_state=0): the value cls.final_state takes.
stop(message, final_state_argument) == final_state_argument

EmptyPool == [m \in {} |-> << >>]

\* The process after the construction of its Bot instances.
Constructed ==
    /\ hostname \in [Bots -> Hostnames]
    /\ offset = [b \in Bots |-> 0]
    /\ name = [b \in Bots |-> None]
    /\ telegram_id = [b \in Bots |-> None]
    /\ sessions = [b \in Bots |-> EmptyPool]
    /\ created = [b \in Bots |-> 0]
    /\ open = {}
    /\ coro = [b \in Bots |-> "none"]
    /\ pc = [b \in Bots |-> "none"]
    /\ update = [b \in Bots |-> None]
    /\ req = [b \in Bots |-> NoRequest]
    /\ routes = {}
    /\ server = FALSE
    /\ tasks = {}
    /\ routed = [b \in Bots |-> [i \in UpdateIds |-> 0]]
    /\ launched = [b \in Bots |-> << >>]
    /\ delivered = [b \in Bots |-> 0]
    /\ acks = [b \in Bots |-> 0]
    /\ final_state = PyInt(initial_final_state)
    /\ phase = "constructed"
    /\ closing = << >>
    /\ last_result = [b \in Bots |-> "none"]
    /\ cooled = [b \in Bots |-> FALSE]
    /\ acquired = << >>
    /\ maintenance = [b \in Bots |-> FALSE]
    /\ overrides = [b \in Bots |-> {}]
    /\ dispatches = 0
    /\ last_dispatch = NoDispatch

\* The platform holds no webhook registration when the process starts.
Init ==
    /\ Constructed
    /\ remote_webhook = [b \in Bots |-> FALSE]

\* The platform may hold the webhook registration an earlier process made
\* for a token.  Its url carries the session token of that process, so its
\* calls reach no route of this one; it is kept for the polling instances,
\* whose deleteWebhook is there to withdraw it.
InitPrior ==
    /\ Constructed
    /\ remote_webhook \in
          {f \in [Bots -> BOOLEAN] : \A b \in Bots : f[b] => hostname[b] = ""}

\* The event loop runs callbacks: inside run_forever, and again inside
\* run_until_complete(stop_app()).
LoopRuns == phase \in {"running", "stopping"}

\* --------------------------------------------------------------------- run
\* Bot.run up to loop.run_forever: setup of every instance, start_app scheduled.
Run ==
    /\ phase = "constructed"
    /\ phase' = "running"
    /\ coro' = [b \in Bots |-> setup(b).task]
    /\ pc' = [b \in Bots |-> "start"]
    /\ routes' = {[path |-> webhook_local_address(b), handler |-> b] :
                    b \in {x \in Bots : setup(x).route}}
    /\ UNCHANGED << config_vars, offset, identity_vars, session_vars, update,
                    req, last_result, cooled, server, acks, dispatch_vars,
                    remote_vars, final_state, closing,
                    acquired, gate_vars, route_vars >>

\* Bot.start_app
StartApp ==
    /\ LoopRuns
    /\ ~server
    /\ server' = TRUE
    /\ UNCHANGED << config_vars, offset, identity_vars, session_vars,
                    main_vars, routes, acks, dispatch_vars, remote_vars,
                    stop_vars,
                    acquired, gate_vars, route_vars >>

\* ------------------------------------------------------------------ get_me
\* get_updates / set_webhook start: `await self.get_me()` posts getMe.
Start(b) ==
    /\ LoopRuns
    /\ pc[b] = "start"
    /\ req' = [req EXCEPT ![b] = Request(b, "getMe", 0)]
    /\ Acquire(b, "getMe", open)
    /\ pc' = [pc EXCEPT ![b] = "getMe"]
    /\ UNCHANGED << config_vars, offset, identity_vars, coro, update,
                    last_result, cooled, web_vars, dispatch_vars, remote_vars,
                    stop_vars,
                    acquired, gate_vars, route_vars >>

\* The request the coroutine posts once get_me has set the name.
AfterGetMe(b) ==
    IF coro[b] = "get_updates" THEN "deleteWebhook" ELSE "setWebhook"

\* `self._name = me["username"]`: the username of the User object.
name_after_get_me(b) == Some("username")

\* get_me leaving _telegram_id as it was.
telegram_id_after_get_me_unset(b) == telegram_id[b]

\* `self._telegram_id = me['id']`: the id of the User object.
telegram_id_after_get_me(b) == Some("id")

\* getMe answered.  A User object sets _name and _telegram_id and the
\* coroutine goes on to its next request; an Exception, None or a raised
\* exception enters the `except` branch, which sleeps.
GetMeDone(b) ==
    /\ LoopRuns
    /\ pc[b] = "getMe"
    /\ \E outcome \in PossibleOutcomes(req[b]) :
         IF api_request_returns(outcome) = "value"
         THEN /\ name' = [name EXCEPT ![b] = name_after_get_me(b)]
              /\ telegram_id' = [telegram_id EXCEPT ![b] =
                                    telegram_id_after_get_me(b)]
              /\ req' = [req EXCEPT ![b] = Request(b, AfterGetMe(b), 0)]
              /\ Acquire(b, AfterGetMe(b), CloseAfterUse(req[b]))
              /\ pc' = [pc EXCEPT ![b] = AfterGetMe(b)]
         ELSE /\ req' = [req EXCEPT ![b] = NoRequest]
              /\ open' = CloseAfterUse(req[b])
              /\ pc' = [pc EXCEPT ![b] = "get_me_sleep"]
              /\ UNCHANGED << identity_vars, sessions, created >>
    /\ UNCHANGED << config_vars, offset, coro, update, last_result, cooled,
                    web_vars, dispatch_vars, remote_vars, stop_vars,
                    acquired, gate_vars, route_vars >>

\* The guard with its test inverted: it returns when the name is set.
name_is_None_inverted(b) == name[b] # None

\* The guard after get_me left out: the coroutine goes on whatever the name.
name_is_None_never(b) == FALSE

\* `if self.name is None: return` of get_updates and set_webhook.
name_is_None(b) == name[b] = None

\* The message of the stop call in get_me: an f-string around self.token.
stop_message(b) ==
    << "Information about bot with token ", token(b),
       " could not be got. Restarting..." >>

\* asyncio.sleep(5*60) ended: stop(65, "...") and get_me returns; then
\* `if self.name is None: return`.  loop.stop() ends run_forever; called
\* inside run_until_complete(stop_app()) it makes run raise RuntimeError.
GetMeSleepDone(b) ==
    /\ LoopRuns
    /\ pc[b] = "get_me_sleep"
    /\ final_state' = stop(PyInt(restart_code), PyStr(stop_message(b)))
    /\ IF phase = "running"
       THEN /\ phase' = "stopping"
            /\ closing' = BotList
       ELSE /\ phase' = "raised"
            /\ UNCHANGED closing
    /\ IF name_is_None(b)
       THEN /\ pc' = [pc EXCEPT ![b] = "returned"]
            /\ UNCHANGED << req, session_vars >>
       ELSE /\ req' = [req EXCEPT ![b] = Request(b, AfterGetMe(b), 0)]
            /\ Acquire(b, AfterGetMe(b), open)
            /\ pc' = [pc EXCEPT ![b] = AfterGetMe(b)]
    /\ UNCHANGED << config_vars, offset, identity_vars, coro, update,
                    last_result, cooled, web_vars, dispatch_vars, remote_vars,
                    acquired, gate_vars, route_vars >>

\* ------------------------------------------------------------- get_updates
\* The remote platform's answers to getUpdates(offset): it assigns
\* update_ids in increasing order and returns the updates it holds from the
\* first one with update_id >= offset on, in increasing order and at most
\* `limit` of them; how many it holds when it answers is its own business.
Min(x, y) == IF x <= y THEN x ELSE y

Batch(first, k) == [j \in 1 .. k |-> [update_id |-> first + j - 1]]

Batches(offset_parameter) ==
    LET first == IF offset_parameter > FirstUpdateId
                 THEN offset_parameter ELSE FirstUpdateId
    IN  {Batch(first, k) : k \in 0 .. Min(limit, LastUpdateId - first + 1)}

\* `for update in updates: asyncio.ensure_future(self.route_update(update))`
Launch(b, updates) ==
    {[bot |-> b, update |-> updates[k], pc |-> "pending", req |-> NoRequest] :
        k \in DOMAIN updates}

Launched(b, updates) ==
    [i \in UpdateIds |->
        routed[b][i] + Cardinality({k \in DOMAIN updates : updates[k].update_id = i})]

\* The for loop walking the batch from its last element to its first.
launch_order_reversed(updates) ==
    [k \in DOMAIN updates |-> updates[Len(updates) + 1 - k].update_id]

\* `for update in updates`: the update_ids in the order of the ensure_future
\* calls, which is the order of the list getUpdates returned.
launch_order(updates) == [k \in DOMAIN updates |-> updates[k].update_id]

\* The loop variable bound to the first element of the batch.
update_after_first(updates, old) ==
    IF updates = << >> THEN old ELSE Some(updates[1])

\* The loop variable `update` after the for loop: the last element, or its
\* old value when `updates` is empty.
update_after(updates, old) ==
    IF updates = << >> THEN old ELSE Some(updates[Len(updates)])

\* The offset without the `+ 1`.
new_offset_same_id(u) == u.update_id

\* The offset with the sign of the increment flipped.
new_offset_minus_one(u) == u.update_id - 1

\* The offset with an increment of two.
new_offset_plus_two(u) == u.update_id + 2

\* `self._offset = update['update_id'] + 1`
new_offset(u) == u.update_id + 1

\* The offset assigned only once no launched task is left running.
offset_after_when_idle(b, u) ==
    IF u # None /\ tasks = {} THEN new_offset(u[1]) ELSE offset[b]

\* `if update is not None: self._offset = ...`
offset_after(b, u) ==
    IF u # None THEN new_offset(u[1]) ELSE offset[b]

\* `await self.getUpdates(offset=self._offset, ...)`: the request posted.
PostGetUpdates(b, offset_parameter, base) ==
    /\ req' = [req EXCEPT ![b] = Request(b, "getUpdates", offset_parameter)]
    /\ Acquire(b, "getUpdates", base)
    /\ pc' = [pc EXCEPT ![b] = "getUpdates"]

\* deleteWebhook answered: its value is dropped, `update = None` and the
\* loop posts its first getUpdates; a raised exception ends get_updates.
DeleteWebhookDone(b) ==
    /\ LoopRuns
    /\ pc[b] = "deleteWebhook"
    /\ \E outcome \in PossibleOutcomes(req[b]) :
         IF api_request_returns(outcome) = "raise"
         THEN /\ pc' = [pc EXCEPT ![b] = "raised"]
              /\ req' = [req EXCEPT ![b] = NoRequest]
              /\ open' = CloseAfterUse(req[b])
              /\ UNCHANGED << sessions, created, remote_webhook >>
         ELSE /\ PostGetUpdates(b, offset[b], CloseAfterUse(req[b]))
              /\ remote_webhook' =
                    IF outcome = "result"
                    THEN [remote_webhook EXCEPT ![b] = FALSE]
                    ELSE remote_webhook
    /\ update' = [update EXCEPT ![b] = None]
    /\ UNCHANGED << config_vars, offset, identity_vars, coro, last_result,
                    cooled, web_vars, dispatch_vars, delivered, stop_vars,
                    acquired, gate_vars, route_vars >>

\* getUpdates answered: one turn of the `while True` loop, up to the next
\* suspension (the next getUpdates post, or the cooldown sleep).
GetUpdatesDone(b) ==
    /\ LoopRuns
    /\ pc[b] = "getUpdates"
    /\ \E outcome \in PossibleOutcomes(req[b]) :
       \E updates \in IF outcome = "result"
                      THEN Batches(req[b].offset) ELSE {<< >>} :
         LET returned == api_request_returns(outcome)
         IN
         /\ last_result' = [last_result EXCEPT ![b] =
                IF returned = "value"
                THEN (IF updates = << >> THEN "empty" ELSE "updates")
                ELSE returned]
         /\ cooled' = [cooled EXCEPT ![b] = FALSE]
         /\ CASE returned = "raise" ->
                    \* the exception leaves api_request and get_updates
                    /\ pc' = [pc EXCEPT ![b] = "raised"]
                    /\ req' = [req EXCEPT ![b] = NoRequest]
                    /\ open' = CloseAfterUse(req[b])
                    /\ UNCHANGED << sessions, created, offset, update,
                                    dispatch_vars >>
              [] returned = "None" ->
                    \* `if updates is None: continue`
                    /\ PostGetUpdates(b, offset[b], CloseAfterUse(req[b]))
                    /\ UNCHANGED << offset, update, dispatch_vars >>
              [] returned = "TelegramError" ->
                    \* `await asyncio.sleep(error_cooldown)`
                    /\ pc' = [pc EXCEPT ![b] = "cooldown"]
                    /\ req' = [req EXCEPT ![b] = NoRequest]
                    /\ open' = CloseAfterUse(req[b])
                    /\ UNCHANGED << sessions, created, offset, update,
                                    dispatch_vars >>
              [] returned = "Exception" ->
                    \* `for update in updates` over an exception instance
                    \* raises TypeError, which ends get_updates
                    /\ pc' = [pc EXCEPT ![b] = "raised"]
                    /\ req' = [req EXCEPT ![b] = NoRequest]
                    /\ open' = CloseAfterUse(req[b])
                    /\ UNCHANGED << sessions, created, offset, update,
                                    dispatch_vars >>
              [] returned = "value" ->
                    LET u == update_after(updates, update[b])
                    IN  /\ tasks' = tasks \cup Launch(b, updates)
                        /\ routed' = [routed EXCEPT ![b] = Launched(b, updates)]
                        /\ launched' = [launched EXCEPT ![b] =
                                            @ \o launch_order(updates)]
                        /\ update' = [update EXCEPT ![b] = u]
                        /\ offset' = [offset EXCEPT ![b] = offset_after(b, u)]
                        /\ PostGetUpdates(b, offset_after(b, u),
                                          CloseAfterUse(req[b]))
    /\ UNCHANGED << config_vars, identity_vars, coro, web_vars, remote_vars,
                    stop_vars,
                    acquired, gate_vars, route_vars >>

\* asyncio.sleep(error_cooldown) ended: `continue` posts getUpdates again.
CooldownDone(b) ==
    /\ LoopRuns
    /\ pc[b] = "cooldown"
    /\ PostGetUpdates(b, offset[b], open)
    /\ cooled' = [cooled EXCEPT ![b] = TRUE]
    /\ UNCHANGED << config_vars, offset, identity_vars, coro, update,
                    last_result, web_vars, dispatch_vars, remote_vars,
                    stop_vars,
                    acquired, gate_vars, route_vars >>

\* ------------------------------------------------------------ route_update
\* The end of a task taking the other tasks of its instance with it.
task_over_cancels_batch(t) == {x \in tasks : x.bot # t.bot}

\* `asyncio.ensure_future(self.route_update(update))`: each task is on its
\* own; when one returns or raises, the tasks left are all the others.
task_over(t) == tasks \ {t}

\* `tasks` holds the tasks that have not ended.  A task starts and runs
\* route_update on the envelope of its update, whatever that holds: a
\* KeyError ends the task, otherwise sendMessage is posted.
RouteUpdateStart(t) ==
    /\ LoopRuns
    /\ t \in tasks
    /\ t.pc = "pending"
    /\ \E raises \in {route_update(envelope).raises : envelope \in Envelopes} :
         IF ~raises
         THEN /\ tasks' = (tasks \ {t}) \cup
                    {[t EXCEPT !.pc = "sendMessage",
                               !.req = Request(t.bot, "sendMessage", 0)]}
              /\ Acquire(t.bot, "sendMessage", open)
         ELSE /\ tasks' = task_over(t)
              /\ UNCHANGED session_vars
    /\ UNCHANGED << config_vars, offset, identity_vars, main_vars, routed,
                    launched,
                    web_vars, remote_vars, stop_vars,
                    acquired, gate_vars, route_vars >>

\* sendMessage answered: route_update returns, or the exception raised by
\* the post ends the task; either way the task is over.
RouteUpdateDone(t) ==
    /\ LoopRuns
    /\ t \in tasks
    /\ t.pc = "sendMessage"
    /\ tasks' = task_over(t)
    /\ open' = CloseAfterUse(t.req)
    /\ UNCHANGED << config_vars, offset, identity_vars, sessions, created,
                    main_vars, routed, launched, web_vars, remote_vars,
                    stop_vars,
                    acquired, gate_vars, route_vars >>

\* ------------------------------------------------------------- set_webhook
\* setWebhook answered: its value only chooses the log line; getWebhookInfo
\* is posted.  The platform registers the webhook when it answers ok.
SetWebhookDone(b) ==
    /\ LoopRuns
    /\ pc[b] = "setWebhook"
    /\ \E outcome \in PossibleOutcomes(req[b]) :
         /\ remote_webhook' =
                IF outcome = "result"
                THEN [remote_webhook EXCEPT ![b] = TRUE]
                ELSE remote_webhook
         /\ IF api_request_returns(outcome) = "raise"
            THEN /\ pc' = [pc EXCEPT ![b] = "raised"]
                 /\ req' = [req EXCEPT ![b] = NoRequest]
                 /\ open' = CloseAfterUse(req[b])
                 /\ UNCHANGED << sessions, created >>
            ELSE /\ req' = [req EXCEPT ![b] = Request(b, "getWebhookInfo", 0)]
                 /\ Acquire(b, "getWebhookInfo", CloseAfterUse(req[b]))
                 /\ pc' = [pc EXCEPT ![b] = "getWebhookInfo"]
    /\ UNCHANGED << config_vars, offset, identity_vars, coro, update,
                    last_result, cooled, web_vars, dispatch_vars, delivered,
                    stop_vars,
                    acquired, gate_vars, route_vars >>

\* getWebhookInfo answered: set_webhook logs and returns.
GetWebhookInfoDone(b) ==
    /\ LoopRuns
    /\ pc[b] = "getWebhookInfo"
    /\ \E outcome \in PossibleOutcomes(req[b]) :
         pc' = [pc EXCEPT ![b] = IF api_request_returns(outcome) = "raise"
                                 THEN "raised" ELSE "returned"]
    /\ req' = [req EXCEPT ![b] = NoRequest]
    /\ open' = CloseAfterUse(req[b])
    /\ UNCHANGED << config_vars, offset, identity_vars, sessions, created,
                    coro, update, last_result, cooled, web_vars,
                    dispatch_vars, remote_vars, stop_vars,
                    acquired, gate_vars, route_vars >>

\* ----------------------------------------------------------------- webhook
\* webhook_feeder launching nothing for the update.
feeder_launch_none(b, u) == {}

\* webhook_feeder: `asyncio.ensure_future(self.route_update(update))`
feeder_launch(b, u) == Launch(b, << u >>)

\* The platform posts its next update to the registered webhook and
\* webhook_feeder runs: the task is launched, the `OK` response returned.
WebhookFeeder(b) ==
    /\ LoopRuns
    /\ server
    /\ remote_webhook[b]
    /\ \E r \in routes : r.path = webhook_local_address(b)
    /\ FirstUpdateId + delivered[b] <= LastUpdateId
    /\ LET u == [update_id |-> FirstUpdateId + delivered[b]]
           handler == (CHOOSE r \in routes :
                          r.path = webhook_local_address(b)).handler
       IN  /\ tasks' = tasks \cup feeder_launch(handler, u)
           /\ routed' = [routed EXCEPT ![handler][u.update_id] =
                            @ + Cardinality(feeder_launch(handler, u))]
           /\ launched' = [launched EXCEPT ![handler] =
                    IF feeder_launch(handler, u) = {}
                    THEN @ ELSE @ \o launch_order(<< u >>)]
           /\ acks' = [acks EXCEPT ![handler] = @ + 1]
    /\ delivered' = [delivered EXCEPT ![b] = @ + 1]
    /\ UNCHANGED << config_vars, offset, identity_vars, session_vars,
                    main_vars, routes, server, remote_webhook, stop_vars,
                    acquired, gate_vars, route_vars >>

\* -------------------------------------------------------------------- stop
\* KeyboardInterrupt ends run_forever; final_state keeps its value.
KeyboardInterrupt ==
    /\ phase = "running"
    /\ phase' = "stopping"
    /\ closing' = BotList
    /\ UNCHANGED << config_vars, offset, identity_vars, session_vars,
                    main_vars, web_vars, dispatch_vars, remote_vars,
                    final_state,
                    acquired, gate_vars, route_vars >>

\* stop_app: `await bot.close_sessions()` for the next instance of cls.bots.
CloseSessions ==
    /\ phase = "stopping"
    /\ closing # << >>
    /\ LET b == Head(closing)
       IN  open' = open \ {sessions[b][m] : m \in DOMAIN sessions[b]}
    /\ closing' = Tail(closing)
    /\ UNCHANGED << config_vars, offset, identity_vars, sessions, created,
                    main_vars, web_vars, dispatch_vars, remote_vars,
                    final_state, phase,
                    acquired, gate_vars, route_vars >>

\* stop_app: `await cls.runner.cleanup()`, then run returns cls.final_state.
Cleanup ==
    /\ phase = "stopping"
    /\ closing = << >>
    /\ phase' = "exited"
    /\ server' = FALSE
    /\ UNCHANGED << config_vars, offset, identity_vars, session_vars,
                    main_vars, routes, acks, dispatch_vars, remote_vars,
                    final_state, closing,
                    acquired, gate_vars, route_vars >>

\* ----------------------------------------------------------- specification
Next ==
    \/ Run
    \/ StartApp
    \/ \E b \in Bots : Start(b)
    \/ \E b \in Bots : GetMeDone(b)
    \/ \E b \in Bots : GetMeSleepDone(b)
    \/ \E b \in Bots : DeleteWebhookDone(b)
    \/ \E b \in Bots : GetUpdatesDone(b)
    \/ \E b \in Bots : CooldownDone(b)
    \/ \E t \in tasks : RouteUpdateStart(t)
    \/ \E t \in tasks : RouteUpdateDone(t)
    \/ \E b \in Bots : SetWebhookDone(b)
    \/ \E b \in Bots : GetWebhookInfoDone(b)
    \/ \E b \in Bots : WebhookFeeder(b)
    \/ CloseSessions
    \/ Cleanup

\* The process stopped by get_me only.
Spec == Init /\ [][Next]_vars

\* The same, started while earlier webhook registrations may exist.
SpecPrior == InitPrior /\ [][Next]_vars

\* The process stopped by get_me or by a KeyboardInterrupt.
NextInterrupt == Next \/ KeyboardInterrupt

SpecInterrupt == Init /\ [][NextInterrupt]_vars

\* get_session called directly, any operation on any instance.
GetSessionCall(b, api_method) ==
    /\ Len(acquired) < MaxAcquire
    /\ LET g == get_session(b, api_method)
       IN  acquired' = Append(acquired,
                [bot |-> b, method |-> api_method, session |-> g.session,
                 session_must_be_closed |-> g.session_must_be_closed])
    /\ Acquire(b, api_method, open)
    /\ UNCHANGED << config_vars, offset, identity_vars, main_vars, web_vars,
                    dispatch_vars, remote_vars, stop_vars, gate_vars,
                    route_vars >>

\* ---------------------------------------------------- maintenance, overrides
\* setMaintenance() without a status: the flag becomes its negation.
SetMaintenance(b) ==
    /\ maintenance' = [maintenance EXCEPT ![b] = ~@]
    /\ UNCHANGED << config_vars, offset, identity_vars, session_vars,
                    main_vars, web_vars, dispatch_vars, remote_vars, stop_vars,
                    acquired, overrides, route_vars >>

\* register(identifier, handler): an entry for the user is in the registry.
Register(b, u) ==
    /\ u \notin overrides[b]
    /\ overrides' = [overrides EXCEPT ![b] = @ \cup {u}]
    /\ UNCHANGED << config_vars, offset, identity_vars, session_vars,
                    main_vars, web_vars, dispatch_vars, remote_vars, stop_vars,
                    acquired, maintenance, route_vars >>

\* The text the maintenance responder sends.
maintenance_message == "maintenance notice"

\* route_update called on an envelope: what it did is kept in last_dispatch.
\* It reads neither the maintenance flag nor the override registry.
RouteUpdateCall(b, envelope) ==
    /\ dispatches < MaxDispatch
    /\ dispatches' = dispatches + 1
    /\ last_dispatch' = [bot |-> b, envelope |-> envelope,
                         result |-> route_update(envelope)]
    /\ IF route_update(envelope).raises
       THEN UNCHANGED session_vars
       ELSE Acquire(b, "sendMessage", open)
    /\ UNCHANGED << config_vars, offset, identity_vars, main_vars, web_vars,
                    dispatch_vars, remote_vars, stop_vars, acquired,
                    gate_vars >>

NextRoute ==
    \/ \E b \in Bots : SetMaintenance(b)
    \/ \E b \in Bots : \E u \in Users : Register(b, u)
    \/ \E b \in Bots : \E envelope \in Envelopes : RouteUpdateCall(b, envelope)

\* route_update called directly, on any envelope, in any state of the
\* maintenance flag and of the override registry.
SpecRoute == Init /\ [][NextRoute]_vars

\* Both listed operations and two unlisted ones.
AcquiredMethods == {"getUpdates", "sendMessage", "getMe", "deleteWebhook"}

NextSession ==
    \E b \in Bots : \E api_method \in AcquiredMethods :
        GetSessionCall(b, api_method)

SpecSession == Init /\ [][NextSession]_vars

\* ------------------------------------------------------------------ claims
Max(S) == CHOOSE i \in S : \A j \in S : j <= i

Polls(b) == coro[b] = "get_updates"
HasRoute(b) == \E r \in routes : r.handler = b

\* The update_ids for which the step launches a route_update task of b.
LaunchedInStep(b) == {i \in UpdateIds : routed'[b][i] > routed[b][i]}

\* C1: the offset of an instance never decreases, whatever getUpdates
\* returns in a poll cycle.
C1_OffsetNonDecreasing ==
    [][\A b \in Bots : offset'[b] >= offset[b]]_vars

\* C1 witness: the offset has advanced and a later cycle ended with a
\* timeout, an error or an empty batch.
C1_Witness ==
    \E b \in Bots :
        /\ offset[b] > FirstUpdateId
        /\ last_result[b] \in {"None", "TelegramError", "empty"}

\* C2: a poll cycle that hands off a non-empty batch leaves the offset at
\* the highest update_id of the batch plus one; every other step leaves the
\* offset as it was.
C2_OffsetAfterCycle ==
    [][\A b \in Bots :
          IF Polls(b) /\ LaunchedInStep(b) # {}
          THEN offset'[b] = Max(LaunchedInStep(b)) + 1
          ELSE offset'[b] = offset[b]]_vars

\* C2 witness: a cycle with an empty batch ended after a cycle with updates:
\* the loop variable still holds the last update of the earlier batch.
C2_Witness ==
    \E b \in Bots :
        /\ last_result[b] = "empty"
        /\ update[b] # None
        /\ offset[b] = update[b][1].update_id + 1

\* C3: while a route_update task launched by the polling loop has not ended,
\* the offset is already past its update_id, and is one past the highest
\* update_id handed off.
C3_OffsetAdvancedAtLaunch ==
    \A b \in Bots :
        Polls(b) =>
            /\ \A t \in tasks : t.bot = b => offset[b] > t.update.update_id
            /\ LET handed == {i \in UpdateIds : routed[b][i] > 0}
               IN  handed # {} => offset[b] = Max(handed) + 1

\* C3 witness: the batch 10, 11 was handed off, the offset is 12 and the
\* next getUpdates is posted with it while the task for 10 has not started.
C3_Witness ==
    \E b \in Bots :
        /\ offset[b] = FirstUpdateId + 2
        /\ pc[b] = "getUpdates"
        /\ req[b].offset = FirstUpdateId + 2
        /\ \E t \in tasks :
              /\ t.bot = b
              /\ t.update.update_id = FirstUpdateId
              /\ t.pc = "pending"
        /\ \E t \in tasks : t.bot = b /\ t.update.update_id = FirstUpdateId + 1

\* C4: in long-polling mode each update_id below the offset has been handed
\* to route_update exactly once, and no other update_id has been handed off.
C4_RoutedExactlyOnce ==
    \A b \in Bots :
        Polls(b) =>
            \A i \in UpdateIds :
                routed[b][i] = IF i < offset[b] THEN 1 ELSE 0

\* C4 witness: every update was handed off once and a further poll cycle
\* has ended without handing any of them off again.
C4_Witness ==
    \E b \in Bots :
        /\ Polls(b)
        /\ \A i \in UpdateIds : routed[b][i] = 1
        /\ last_result[b] = "empty"

\* C5: two get_session calls of an instance for a listed operation return
\* the same session with session_must_be_closed = FALSE; a call for an
\* unlisted operation returns session_must_be_closed = TRUE and a session no
\* other call has returned.
C5_SessionReuse ==
    \A i \in DOMAIN acquired : \A j \in DOMAIN acquired :
        LET x == acquired[i]
            y == acquired[j]
        IN  /\ x.session_must_be_closed = (x.method \notin DOMAIN sessions_timeouts)
            /\ (i # j /\ x.bot = y.bot /\ x.method = y.method
                      /\ x.method \in DOMAIN sessions_timeouts)
                  => x.session = y.session
            /\ (i # j /\ x.method \notin DOMAIN sessions_timeouts)
                  => x.session # y.session

\* C5 witness: an instance acquired getUpdates twice and getMe twice.
C5_Witness ==
    \E b \in Bots :
        /\ Cardinality({i \in DOMAIN acquired :
              acquired[i].bot = b /\ acquired[i].method = "getUpdates"}) >= 2
        /\ Cardinality({i \in DOMAIN acquired :
              acquired[i].bot = b /\ acquired[i].method = "getMe"}) >= 2

\* C6: once setup has run, an instance polls if and only if its hostname is
\* empty, has a POST route and a set_webhook coroutine if and only if it
\* does not poll, and no instance with a route ever posts getUpdates.
C6_ExactlyOneTransport ==
    phase # "constructed" =>
        \A b \in Bots :
            /\ Polls(b) <=> hostname[b] = ""
            /\ HasRoute(b) <=> ~Polls(b)
            /\ HasRoute(b) <=> coro[b] = "set_webhook"
            /\ HasRoute(b) =>
                  /\ pc[b] \notin {"deleteWebhook", "getUpdates", "cooldown"}
                  /\ "getUpdates" \notin DOMAIN sessions[b]
            /\ Polls(b) => pc[b] \notin {"setWebhook", "getWebhookInfo"}

\* C6 witness: one instance is polling without a route while another has
\* its route and its webhook registered.
C6_Witness ==
    \E b \in Bots : \E c \in Bots :
        /\ pc[b] = "getUpdates" /\ ~HasRoute(b)
        /\ HasRoute(c) /\ remote_webhook[c] /\ ~Polls(c)

\* C7: every webhook call received has been answered `OK` and has launched
\* exactly one route_update task, whatever became of the task.
C7_FeederAcknowledges ==
    \A b \in Bots :
        /\ acks[b] = delivered[b]
        /\ ~Polls(b) =>
              \A i \in UpdateIds :
                  routed[b][i] = IF i < FirstUpdateId + delivered[b] THEN 1 ELSE 0

\* C7 witness: a webhook call has been answered while its task has not
\* started.
C7_Witness ==
    \E t \in tasks :
        /\ ~Polls(t.bot)
        /\ t.pc = "pending"
        /\ acks[t.bot] = t.update.update_id - FirstUpdateId + 1

\* The polling loop will post getUpdates again: a request is posted, or the
\* cooldown sleep that precedes one is running.
WillPoll(b) == pc[b] \in {"getUpdates", "cooldown"}

\* C8: while the process is not stopped, after a batch, an empty batch, a
\* timeout, an API error or a malformed response the polling loop is still
\* running and posts getUpdates again.
C8_LoopNeverEnds ==
    \A b \in Bots :
        (/\ phase = "running"
         /\ last_result[b] \in {"updates", "empty", "None", "TelegramError",
                                "Exception"})
            => WillPoll(b)

\* C9: after a getUpdates call that failed at transport level (timeout or
\* network error) the loop sleeps the cooldown before it posts the next
\* getUpdates, and the offset it posts is the unchanged one.
C9_TransportFailureBacksOff ==
    \A b \in Bots :
        (phase = "running" /\ last_result[b] \in {"None", "raise"})
            => \/ pc[b] = "cooldown"
               \/ pc[b] = "getUpdates" /\ cooled[b] /\ req[b].offset = offset[b]

\* C10: after a malformed or an empty getUpdates response the loop has
\* posted the next getUpdates with the unchanged offset and without a
\* cooldown.
C10_MalformedIsNoUpdates ==
    \A b \in Bots :
        (phase = "running" /\ last_result[b] \in {"Exception", "empty"})
            => pc[b] = "getUpdates" /\ ~cooled[b] /\ req[b].offset = offset[b]

\* The requests that activate a transport.
TransportRequests == {"deleteWebhook", "getUpdates", "setWebhook"}

\* getMe of b has been answered and has not set the name.
GetMeFailed(b) == name[b] = None /\ pc[b] \notin {"none", "start", "getMe"}

\* C11: an instance whose getMe failed is sleeping the five minutes or has
\* returned after signalling the stop of the process, and it has posted no
\* deleteWebhook, getUpdates or setWebhook request: none is awaited and no
\* getUpdates session was ever built.
C11_FailedIdentityNeverActivates ==
    \A b \in Bots :
        GetMeFailed(b) =>
            /\ pc[b] \in {"get_me_sleep", "returned"}
            /\ pc[b] = "returned" =>
                  /\ phase \in {"stopping", "exited", "raised"}
                  /\ final_state # PyInt(initial_final_state)
            /\ req[b].method \notin TransportRequests
            /\ "getUpdates" \notin DOMAIN sessions[b]
            /\ ~remote_webhook[b]

\* C11 witness: an instance has returned after its failed getMe and the
\* stop it signalled, while the other instance is polling.
C11_Witness ==
    \E b \in Bots : \E c \in Bots :
        /\ GetMeFailed(b) /\ pc[b] = "returned"
        /\ phase = "stopping"
        /\ pc[c] = "getUpdates"

\* C12: once a call of stop has set final_state, a later call of stop
\* before the process exits leaves it as the first call set it.
C12_FirstStopWins ==
    [][final_state # PyInt(initial_final_state) =>
          final_state' = final_state]_vars

\* The sessions stored in the sessions table of b.
Pooled(b) == {sessions[b][m] : m \in DOMAIN sessions[b]}

\* C13: when stop_app has closed the sessions of every instance and goes on
\* to runner.cleanup, and when it has completed, no instance has an open
\* session in its sessions table.
C13_PoolsClosedAtShutdown ==
    (phase = "exited" \/ (phase = "stopping" /\ closing = << >>)) =>
        \A b \in Bots : Pooled(b) \cap open = {}

\* The step is a call of route_update of instance b.
Dispatches(b) == dispatches' = dispatches + 1 /\ last_dispatch'.bot = b

\* C14: route_update on an envelope with exactly one populated category key
\* invokes the handler of that category and no other.
C14_OneCategoryOneHandler ==
    dispatches > 0 =>
        LET envelope == last_dispatch.envelope
        IN  Cardinality(envelope.categories) = 1 =>
                last_dispatch.result.handlers = envelope.categories

\* C15: route_update on an envelope with no or with more than one populated
\* category key invokes no handler, logs an error and returns normally.
C15_RoutingMissDropped ==
    dispatches > 0 =>
        LET envelope == last_dispatch.envelope
            result == last_dispatch.result
        IN  Cardinality(envelope.categories) # 1 =>
                /\ result.handlers = {}
                /\ result.logged
                /\ ~result.raises

\* C16: while maintenance is enabled on an instance (no bypass criterion is
\* registered), route_update on a private-chat message envelope sends the
\* maintenance notice as the only reply, whatever the text of the message.
C16_MaintenanceNotice ==
    [][\A b \in Bots :
          (/\ Dispatches(b)
           /\ maintenance[b]
           /\ last_dispatch'.envelope.categories = {"message"}
           /\ last_dispatch'.envelope.message.chat = "private")
             => last_dispatch'.result.replies = << maintenance_message >>]_vars

\* C17: route_update on a text message of a user who has an override entry
\* consumes the entry: it is absent when the next text message of that
\* user is dispatched.
C17_OverrideConsumedOnce ==
    [][\A b \in Bots : \A u \in Users :
          (/\ Dispatches(b)
           /\ u \in overrides[b]
           /\ "message" \in last_dispatch'.envelope.categories
           /\ last_dispatch'.envelope.message.has_text
           /\ last_dispatch'.envelope.message.sender = u)
             => u \notin overrides'[b]]_vars

\* Task t is over after the step: neither it nor its continuation is left.
Ends(t) ==
    /\ t \in tasks
    /\ ~\E x \in tasks' : x.bot = t.bot /\ x.update = t.update

\* C18: a step in which a route_update task ends, by returning, by raising
\* or by its sendMessage failing, removes that task only: the coroutine of
\* the instance stays where it is with its posted request, the other tasks
\* stay launched, and the offset and the count of launched tasks stay.
C18_FailureIsLocal ==
    [][\A t \in tasks :
          Ends(t) =>
              /\ tasks' = tasks \ {t}
              /\ UNCHANGED << offset, coro, pc, req, update, routed >>]_vars

\* C18 witness: of the batch 10, 11 the task for 10 has ended by a KeyError
\* (the instance never built a sendMessage session), the task for 11 is
\* still launched, the offset is 12 and the loop awaits its next getUpdates.
C18_Witness ==
    \E b \in Bots :
        /\ phase = "running"
        /\ routed[b][FirstUpdateId] = 1
        /\ ~\E t \in tasks : t.bot = b /\ t.update.update_id = FirstUpdateId
        /\ "sendMessage" \notin DOMAIN sessions[b]
        /\ \E t \in tasks : t.bot = b /\ t.update.update_id = FirstUpdateId + 1
        /\ pc[b] = "getUpdates"
        /\ offset[b] = FirstUpdateId + 2

\* The instances whose close_sessions has run in stop_app.
SessionsClosed ==
    IF phase \in {"stopping", "exited", "raised"}
    THEN Bots \ {closing[k] : k \in DOMAIN closing}
    ELSE {}

\* C19: a session stored in the sessions table of an instance is open
\* unless close_sessions has run for that instance: no request closes it,
\* however the request ended.
C19_PooledClosedOnlyAtShutdown ==
    \A b \in Bots :
        Pooled(b) \ open # {} => b \in SessionsClosed

\* C19 witness: the getUpdates session of an instance has served requests
\* that ended with a result and then with a raised exception, the
\* sendMessage session has been used by a task that has ended, and both
\* are open.
C19_Witness ==
    \E b \in Bots :
        /\ pc[b] = "raised"
        /\ last_result[b] = "raise"
        /\ offset[b] > FirstUpdateId
        /\ DOMAIN sessions[b] = {"getUpdates", "sendMessage"}
        /\ ~\E t \in tasks : t.bot = b
        /\ Pooled(b) \subseteq open

\* C20: api_request does not raise: every getUpdates call that has ended
\* handed get_updates a value, which is the result, the TelegramError, the
\* exception of the check, or None after a timeout.
C20_ApiRequestReturns ==
    \A b \in Bots :
        last_result[b] \in
            {"none", "updates", "empty", "TelegramError", "Exception", "None"}

\* C21: in long-polling mode the offset is never past an update that has
\* not been handed to route_update: every update_id the platform has
\* assigned below the offset has had its task launched.
C21_OffsetOnlyPastHandedOff ==
    \A b \in Bots :
        Polls(b) =>
            \A i \in UpdateIds : i < offset[b] => routed[b][i] > 0

\* C21 witness: one batch held every update; its tasks are all launched and
\* none has started, and the offset is one past the last of them.
C21_Witness ==
    \E b \in Bots :
        /\ Polls(b)
        /\ offset[b] = LastUpdateId + 1
        /\ \A i \in UpdateIds :
              \E t \in tasks :
                  t.bot = b /\ t.update.update_id = i /\ t.pc = "pending"

\* C22: an instance that has posted a getUpdates request has no webhook
\* registered on the platform: its deleteWebhook had succeeded before.
C22_WebhookWithdrawnBeforePolling ==
    \A b \in Bots :
        (Polls(b) /\ pc[b] \in {"getUpdates", "cooldown"})
            => ~remote_webhook[b]

\* C23: the tasks of a polling instance have been launched in the order the
\* platform assigned their updates, within a batch and from one batch to
\* the next: the update_ids in launch order increase.
C23_LaunchedInOrder ==
    \A b \in Bots :
        Polls(b) =>
            \A j \in DOMAIN launched[b] : \A k \in DOMAIN launched[b] :
                j < k => launched[b][j] < launched[b][k]

\* C23 witness: the tasks for 10 and 11 were launched in this order, and the
\* task for 11 has ended while the task for 10 awaits its sendMessage.
C23_Witness ==
    \E b \in Bots :
        /\ Polls(b)
        /\ Len(launched[b]) >= 2
        /\ launched[b][1] = FirstUpdateId
        /\ launched[b][2] = FirstUpdateId + 1
        /\ \E t \in tasks :
              /\ t.bot = b
              /\ t.update.update_id = FirstUpdateId
              /\ t.pc = "sendMessage"
        /\ ~\E t \in tasks : t.bot = b /\ t.update.update_id = FirstUpdateId + 1

\* The sessions of the requests that are posted and not answered.
Awaited ==
    {req[b].session : b \in {x \in Bots : req[x].method # ""}}
    \cup {t.req.session : t \in {x \in tasks : x.pc = "sendMessage"}}

\* C24: a session that is open and is in no sessions table is the session
\* of a request that has not been answered: once api_request has ended,
\* however it ended, the session it built for an unlisted operation is
\* closed.
C24_UnpooledClosedAfterUse ==
    \A x \in open :
        (\A b \in Bots : x \notin Pooled(b)) => x \in Awaited

\* C24 witness: an instance polls after its getMe and deleteWebhook, whose
\* sessions are closed, and the set_webhook coroutine of another instance
\* was ended by an exception raised by a request, with every session that
\* instance built closed.
C24_Witness ==
    \E b \in Bots : \E c \in Bots :
        /\ pc[b] = "getUpdates"
        /\ created[b] = 3
        /\ << b, 1 >> \notin open /\ << b, 2 >> \notin open
        /\ coro[c] = "set_webhook"
        /\ pc[c] = "raised"
        /\ created[c] >= 2
        /\ \A n \in 1 .. created[c] : << c, n >> \notin open

\* Instance b has had an update passed to route_update.
Dispatched(b) == \E i \in UpdateIds : routed[b][i] > 0

\* C25: an instance that has had an update passed to route_update, by its
\* polling loop or by webhook_feeder, has its name and its telegram_id set.
C25_IdentityBeforeDispatch ==
    \A b \in Bots :
        Dispatched(b) => (name[b] # None /\ telegram_id[b] # None)

\* C25 witness: a polling instance and a webhook instance have both had an
\* update passed to route_update.
C25_Witness ==
    \E b \in Bots : \E c \in Bots :
        /\ Polls(b) /\ Dispatched(b)
        /\ ~Polls(c) /\ Dispatched(c)
        /\ name[c] # None

\* C26: a step changes the offset of an instance only if it is the step of
\* that instance's polling loop receiving the answer of getUpdates: no task
\* runs in it, webhook_feeder does not, no other instance moves; and the
\* offset of an instance with a hostname stays 0.
C26_OffsetOwnedByPollingLoop ==
    [][\A b \in Bots :
          /\ hostname[b] # "" => offset'[b] = 0
          /\ offset'[b] # offset[b] =>
                /\ coro[b] = "get_updates"
                /\ pc[b] = "getUpdates" /\ pc'[b] = "getUpdates"
                /\ tasks \subseteq tasks'
                /\ acks' = acks /\ delivered' = delivered
                /\ sessions' = sessions
                /\ \A c \in Bots \ {b} :
                      /\ pc'[c] = pc[c]
                      /\ req'[c] = req[c]
                      /\ offset'[c] = offset[c]]_vars

\* C26 witness: a webhook instance has had an update dispatched and its
\* task has ended while its offset is 0, and a polling instance has its
\* offset past every update with no task left.
C26_Witness ==
    \E b \in Bots : \E c \in Bots :
        /\ Polls(b) /\ offset[b] = LastUpdateId + 1
        /\ ~Polls(c) /\ routed[c][FirstUpdateId] > 0 /\ offset[c] = 0
        /\ "sendMessage" \in DOMAIN sessions[c]
        /\ tasks = {}

\* C27: the sessions table of an instance has entries for listed operations
\* only, an entry once made is never replaced by another session, whatever
\* the interleaving of the requests of the polling loop and of the tasks,
\* and no session is in the tables of two instances.
C27_OnePooledSessionPerOperation ==
    [][\A b \in Bots :
          /\ DOMAIN sessions'[b] \subseteq DOMAIN sessions_timeouts
          /\ \A m \in DOMAIN sessions[b] :
                /\ m \in DOMAIN sessions'[b]
                /\ sessions'[b][m] = sessions[b][m]
          /\ \A c \in Bots \ {b} : Pooled(b)' \cap Pooled(c)' = {}]_vars

\* C27 witness: two tasks of an instance await sendMessage on the one
\* sendMessage session while its polling loop awaits getUpdates on the
\* getUpdates session, and another instance polls on a session of its own.
C27_Witness ==
    \E b \in Bots : \E c \in Bots \ {b} :
        /\ DOMAIN sessions[b] = {"getUpdates", "sendMessage"}
        /\ Cardinality({t \in tasks :
              /\ t.bot = b
              /\ t.pc = "sendMessage"
              /\ t.req.session = sessions[b]["sendMessage"]}) >= 2
        /\ pc[b] = "getUpdates"
        /\ req[b].session = sessions[b]["getUpdates"]
        /\ "getUpdates" \in DOMAIN sessions[c]
        /\ sessions[c]["getUpdates"] # sessions[b]["getUpdates"]

\* C28: once setup has run, an instance has one POST route if it has a
\* hostname and none otherwise, the path of a route is
\* /webhook/{token}_{session_token}/ of its instance, no two routes have the
\* same path, and an instance with a route has been handed exactly the
\* updates that were posted to its path.
C28_WebhookPathUnique ==
    phase # "constructed" =>
        /\ \A b \in Bots :
              Cardinality({r \in routes : r.handler = b})
                  = IF hostname[b] # "" THEN 1 ELSE 0
        /\ \A r \in routes :
              r.path = << "/webhook/", token(r.handler), "_",
                          session_token(r.handler), "/" >>
        /\ \A r1 \in routes : \A r2 \in routes :
              r1.path = r2.path => r1 = r2
        /\ \A b \in Bots :
              HasRoute(b) =>
                  /\ Len(launched[b]) = delivered[b]
                  /\ \A k \in DOMAIN launched[b] :
                        launched[b][k] = FirstUpdateId + k - 1

\* C28 witness: two instances have a route each; an update was posted to
\* the path of one of them, which has launched its task, and the other has
\* launched none.
C28_Witness ==
    \E b \in Bots : \E c \in Bots \ {b} :
        /\ HasRoute(b) /\ HasRoute(c)
        /\ delivered[b] = 1 /\ delivered[c] = 0
        /\ launched[b] = << FirstUpdateId >>
        /\ launched[c] = << >>
        /\ \E t \in tasks : t.bot = b

\* C29: final_state is an integer in every state: 0 while no stop was
\* called, and the restart code 65 once get_me has called stop after a
\* failed getMe.
C29_FinalStateIsInteger ==
    /\ final_state.type = "int"
    /\ phase \in {"constructed", "running"} =>
          final_state = PyInt(initial_final_state)
    /\ (\E b \in Bots : GetMeFailed(b) /\ pc[b] = "returned") =>
          final_state = PyInt(restart_code)

\* C30: the name and the telegram_id of an instance are both unset or both
\* set; an instance in the sleep of get_me's `except` branch, or whose
\* get_me made the last stop call, has its name unset, and an instance whose name is
\* unset awaits no deleteWebhook, getUpdates, setWebhook or getWebhookInfo
\* request, is not in the cooldown of the polling loop and has no webhook
\* registered.
C30_IdentityAllOrNothing ==
    \A b \in Bots :
        /\ (name[b] = None) <=> (telegram_id[b] = None)
        /\ pc[b] = "get_me_sleep" => name[b] = None
        /\ final_state = stop(PyInt(restart_code), PyStr(stop_message(b))) =>
              name[b] = None
        /\ name[b] = None =>
              /\ pc[b] \notin {"deleteWebhook", "getUpdates", "cooldown",
                                "setWebhook", "getWebhookInfo"}
              /\ req[b].method \in {"", "getMe"}
              /\ ~remote_webhook[b]

\* C30 witness: an instance has its name and telegram_id set and polls,
\* while a webhook instance has returned after its failed getMe with
\* neither set and no webhook registered.
C30_Witness ==
    \E b \in Bots : \E c \in Bots :
        /\ name[b] # None /\ telegram_id[b] # None
        /\ pc[b] = "getUpdates"
        /\ hostname[c] # ""
        /\ name[c] = None /\ telegram_id[c] = None
        /\ pc[c] = "returned"
        /\ final_state = stop(PyInt(restart_code), PyStr(stop_message(c)))
        /\ ~remote_webhook[c]

\* stop_app has closed the sessions in the sessions table of b.
ShutdownClosed(b) ==
    /\ phase \in {"stopping", "raised", "exited"}
    /\ \A k \in DOMAIN closing : closing[k] # b

\* The requests of instance b that the step posts: by its get_updates or
\* set_webhook coroutine, and by its route_update tasks.
PostedInStep(b) ==
    {r \in {req'[b]} : r # req[b] /\ r.method # ""}
    \cup {t.req : t \in {x \in tasks' \ tasks :
                            x.bot = b /\ x.pc = "sendMessage"}}

\* C31: a request posted on a session of the sessions table is posted on an
\* open session, and once stop_app has closed the sessions of an instance
\* that instance posts no getUpdates or sendMessage request and its sessions
\* table gets no new entry.
C31_NoRequestAfterPoolClosed ==
    [][\A b \in Bots :
          /\ \A r \in PostedInStep(b) :
                r.session \in Pooled(b)' => r.session \in open'
          /\ ShutdownClosed(b) =>
                /\ \A r \in PostedInStep(b) :
                      r.method \notin {"getUpdates", "sendMessage"}
                /\ sessions'[b] = sessions[b]]_vars

=============================================================================
